---- MODULE Spec2Model ----
(***************************************************************************)
(* Model of nova_act/samples/facebook_marketplace.py: the main() entry     *)
(* point that drives a NovaAct browser session through five instructions   *)
(* and then validates and prints the extraction result.                    *)
(***************************************************************************)
EXTENDS Integers, Sequences, FiniteSets, TLC

VARIABLES pc, user_data_dir, headless, search_item, env, prompted, session,
          sent, returned, result, out, raised, hist

vars == <<pc, user_data_dir, headless, search_item, env, prompted, session,
          sent, returned, result, out, raised, hist>>

\* ------------------------------------------------------------------ bounds
\* longest items list / bare list the agent returns in a single run of main
MaxLen == 2
\* longest list the agent returns when main is called again and again
MaxRepLen == 1

\* ------------------------------------------------------- JSON-like values
None == "None"

JStr(s) == [tag |-> "str", s |-> s]
JNum(s) == [tag |-> "num", s |-> s]
JNull == [tag |-> "null"]
JObj(f) == [tag |-> "obj", f |-> f]
JList(q) == [tag |-> "list", q |-> q]

\* the four annotated fields of MarketplaceItem, in declaration order
ItemFields == <<"title", "price", "location", "time_posted">>
ItemFieldSet == {ItemFields[i] : i \in 1..Len(ItemFields)}

Desk == JObj([title |-> JStr("Desk"), price |-> JStr("$20"),
              location |-> JStr("City"), time_posted |-> JStr("2 days")])
Lamp == JObj([title |-> JStr("Lamp"), price |-> JStr("$5"),
              location |-> JStr("Town"), time_posted |-> JStr("une semaine")])
\* a well-formed record that carries one more key than the model declares
DeskExtra == JObj([title |-> JStr("Desk"), price |-> JStr("$20"),
                   location |-> JStr("City"), time_posted |-> JStr("2 days"),
                   url |-> JStr("http://x")])
NoTime == JObj([title |-> JStr("Desk"), price |-> JStr("$20"),
                location |-> JStr("City")])
NumPrice == JObj([title |-> JStr("Desk"), price |-> JNum("20"),
                  location |-> JStr("City"), time_posted |-> JStr("2 days")])
Elements == {Desk, Lamp, DeskExtra, NoTime, NumPrice, JStr("Desk")}

RECURSIVE SeqsUpTo(_, _)
SeqsUpTo(S, n) ==
    IF n = 0 THEN {<<>>}
    ELSE LET shorter == SeqsUpTo(S, n - 1)
         IN  shorter \cup {Append(q, e) : q \in {p \in shorter : Len(p) = n - 1}, e \in S}

\* what result.parsed_response can be: {"items": [...]}, a bare list, an
\* object without items, an object whose items is no list, a scalar, None
Candidates(n) ==
    {JObj([items |-> JList(q)]) : q \in SeqsUpTo(Elements, n)}
        \cup {JList(q) : q \in SeqsUpTo(Elements, n)}
        \cup {JObj([listings |-> JList(<<Desk>>)]), JObj([items |-> JStr("Desk")]),
              JStr("not json-like"), JNull}

RawTexts == {"raw-1", "raw-2"}

\* --------------------------------------------------- pydantic validation
NoIdx == -1
Err(idx, field, type) == [idx |-> idx, field |-> field, type |-> type]
NoMsg == [title |-> "", errors |-> {}]

\* errors of one value validated against MarketplaceItem, located at idx
ItemErrors(v, idx) ==
    IF v.tag # "obj" THEN {Err(idx, "", "model_type")}
    ELSE {Err(idx, k, "missing") : k \in ItemFieldSet \ DOMAIN v.f}
         \cup {Err(idx, k, "string_type") :
                  k \in {j \in ItemFieldSet \cap DOMAIN v.f : v.f[j].tag # "str"}}

\* the MarketplaceItem instance built from a value that validates
ItemOf(v) == [k \in ItemFieldSet |-> v.f[k].s]

\* MarketplaceItem.model_validate(v)
ItemValidate(v) ==
    LET errs == ItemErrors(v, NoIdx)
    IN  IF errs = {}
        THEN [ok |-> TRUE, item |-> ItemOf(v), msg |-> NoMsg]
        ELSE [ok |-> FALSE, item |-> [k \in ItemFieldSet |-> ""],
              msg |-> [title |-> "MarketplaceItem", errors |-> errs]]

\* errors of a value validated against MarketplaceItems
ItemsErrors(v) ==
    IF v.tag # "obj" THEN {Err(NoIdx, "", "model_type")}
    ELSE IF "items" \notin DOMAIN v.f THEN {Err(NoIdx, "items", "missing")}
    ELSE IF v.f["items"].tag # "list" THEN {Err(NoIdx, "items", "list_type")}
    ELSE LET q == v.f["items"].q
         IN  UNION {ItemErrors(q[i], i - 1) : i \in 1..Len(q)}

\* MarketplaceItems.model_validate(v)
ItemsValidate(v) ==
    LET errs == ItemsErrors(v)
    IN  IF errs = {}
        THEN [ok |-> TRUE,
              items |-> [i \in 1..Len(v.f["items"].q) |-> ItemOf(v.f["items"].q[i])],
              msg |-> NoMsg]
        ELSE [ok |-> FALSE, items |-> <<>>,
              msg |-> [title |-> "MarketplaceItems", errors |-> errs]]

\* ------------------------------------------------------------- printing
Line(kind, idx, text) == [kind |-> kind, idx |-> idx, text |-> text, msg |-> NoMsg]
ErrLine(m) == [kind |-> "error", idx |-> 0, text |-> "", msg |-> m]

\* the five print calls of one loop iteration
ItemLines(i, item) ==
    << Line("title", i, item["title"]), Line("price", 0, item["price"]),
       Line("location", 0, item["location"]), Line("posted", 0, item["time_posted"]),
       Line("blank", 0, "") >>

RECURSIVE LoopLines(_, _)
LoopLines(items, i) ==
    IF i > Len(items) THEN <<>>
    ELSE ItemLines(i, items[i]) \o LoopLines(items, i + 1)

\* variant: the loop index starts one too far and skips the first record
PrintItemsSkipFirst(items) ==
    << Line("header", 0, "First 5 Facebook Marketplace items (filtered results):"),
       Line("rule", 0, "-") >> \o LoopLines(items, 2)

\* header, rule, then the enumerate(items, 1) loop
PrintItems(items) ==
    << Line("header", 0, "First 5 Facebook Marketplace items (filtered results):"),
       Line("rule", 0, "-") >> \o LoopLines(items, 1)

\* ----------------------------------------------------------- exceptions
NoExc == [type |-> "none", msg |-> NoMsg]
ValueError == [type |-> "ValueError", msg |-> NoMsg]
ValidationError(m) == [type |-> "ValidationError", msg |-> m]

\* variant: elements that do not validate are left out of the list
ListValidateSkipInvalid(q) ==
    LET good == {i \in 1..Len(q) : ItemValidate(q[i]).ok}
        nth(n) == CHOOSE i \in good : Cardinality({j \in good : j <= i}) = n
    IN  [ok |-> TRUE,
         items |-> [n \in 1..Cardinality(good) |-> ItemValidate(q[nth(n)]).item],
         msg |-> NoMsg]

\* variant: every element is validated and the error of the last bad one kept
ListValidateLastError(q) ==
    LET bad == {i \in 1..Len(q) : ~ItemValidate(q[i]).ok}
    IN  IF bad = {}
        THEN [ok |-> TRUE, items |-> [i \in 1..Len(q) |-> ItemValidate(q[i]).item],
              msg |-> NoMsg]
        ELSE [ok |-> FALSE, items |-> <<>>,
              msg |-> ItemValidate(q[CHOOSE i \in bad : \A j \in bad : i >= j]).msg]

\* [MarketplaceItem.model_validate(item) for item in parsed_response]:
\* stops at the first element that does not validate
ListValidate(q) ==
    LET bad == {i \in 1..Len(q) : ~ItemValidate(q[i]).ok}
    IN  IF bad = {}
        THEN [ok |-> TRUE, items |-> [i \in 1..Len(q) |-> ItemValidate(q[i]).item],
              msg |-> NoMsg]
        ELSE [ok |-> FALSE, items |-> <<>>,
              msg |-> ItemValidate(q[CHOOSE i \in bad : \A j \in bad : i <= j]).msg]

\* the if/else on result.matches_schema: what is printed, what is raised
ResolveResult(r) ==
    LET v == ItemsValidate(r.parsed_response)
    IN  IF r.matches_schema
        THEN IF v.ok THEN [out |-> PrintItems(v.items), raised |-> NoExc]
             ELSE [out |-> <<>>, raised |-> ValidationError(v.msg)]
        ELSE IF v.ok THEN [out |-> PrintItems(v.items), raised |-> NoExc]
        ELSE IF r.parsed_response.tag = "list"
             THEN LET w == ListValidate(r.parsed_response.q)
                  IN  IF w.ok THEN [out |-> PrintItems(w.items), raised |-> NoExc]
                      ELSE [out |-> << ErrLine(w.msg), Line("raw", 0, r.response) >>,
                            raised |-> NoExc]
        ELSE [out |-> << Line("failed", 0, r.response) >>, raised |-> NoExc]

\* ------------------------------------------------------------ main state
NoResult == [matches_schema |-> FALSE, parsed_response |-> JNull, response |-> ""]
NoSession == [state |-> "none", user_data_dir |-> None, headless |-> None]
NoRun == [used |-> FALSE, result |-> NoResult, out |-> <<>>, raised |-> NoExc]

Dirs == {"/profiles/a", "/profiles/b"}
Modes == {"True", "False"}
SearchItems == {"screens", "desk"}
FzfOptions == <<"Headless (background, faster)", "Visible (you can see the browser)">>
\* fzf.prompt returns the selected lines, or an empty list when aborted
FzfChoices == {<<>>, <<FzfOptions[1]>>, <<FzfOptions[2]>>}

\* variant: the 24-hour option is selected before the filter is opened
InstructionsFilterFirst(item) ==
    << [text |-> "Click on Marketplace", arg |-> "", schema |-> FALSE],
       [text |-> "Search for", arg |-> item, schema |-> FALSE],
       [text |-> "Select last 24 hours", arg |-> "", schema |-> FALSE],
       [text |-> "Click on date de mise en vente", arg |-> "", schema |-> FALSE],
       [text |-> "Get the first 5 marketplace items", arg |-> "", schema |-> TRUE] >>

\* the instructions of the with-block, in program order
Instructions(item) ==
    << [text |-> "Click on Marketplace", arg |-> "", schema |-> FALSE],
       [text |-> "Search for", arg |-> item, schema |-> FALSE],
       [text |-> "Click on date de mise en vente", arg |-> "", schema |-> FALSE],
       [text |-> "Select last 24 hours", arg |-> "", schema |-> FALSE],
       [text |-> "Get the first 5 marketplace items", arg |-> "", schema |-> TRUE] >>
NumActs == Len(Instructions(""))

\* a call main(user_data_dir, headless, search_item) in a process whose
\* environment holds USER_DATA_DIR = e
Call(d, h, s, e) ==
    /\ pc = "start"
    /\ user_data_dir = d
    /\ headless = h
    /\ search_item = s
    /\ env = e
    /\ prompted = FALSE
    /\ session = NoSession
    /\ sent = <<>>
    /\ returned = 0
    /\ result = NoResult
    /\ out = <<>>
    /\ raised = NoExc

Init ==
    /\ \E d \in Dirs \cup {None}, h \in Modes \cup {None}, s \in SearchItems,
          e \in Dirs \cup {None} : Call(d, h, s, e)
    /\ hist = NoRun

\* variant: the environment variable is consulted first
CheckUserDataDirEnvFirst ==
    /\ pc = "start"
    /\ IF env # None
       THEN /\ user_data_dir' = env
            /\ raised' = raised
            /\ pc' = "mode"
       ELSE /\ user_data_dir' = user_data_dir
            /\ IF user_data_dir = None
               THEN raised' = ValueError /\ pc' = "done"
               ELSE raised' = raised /\ pc' = "mode"
    /\ UNCHANGED <<headless, search_item, env, prompted, session, sent, returned,
                   result, out, hist>>

\* lines 47-50
CheckUserDataDir ==
    /\ pc = "start"
    /\ IF user_data_dir = None
       THEN /\ user_data_dir' = env
            /\ IF env = None
               THEN raised' = ValueError /\ pc' = "done"
               ELSE raised' = raised /\ pc' = "mode"
       ELSE /\ user_data_dir' = user_data_dir
            /\ raised' = raised
            /\ pc' = "mode"
    /\ UNCHANGED <<headless, search_item, env, prompted, session, sent, returned,
                   result, out, hist>>

\* lines 53-61
SelectMode ==
    /\ pc = "mode"
    /\ IF headless = None
       THEN /\ prompted' = TRUE
            /\ \E choice \in FzfChoices :
                  headless' = IF choice # <<>> /\ choice[1] = FzfOptions[2]
                              THEN "False" ELSE "True"
       ELSE UNCHANGED <<prompted, headless>>
    /\ pc' = "open"
    /\ UNCHANGED <<user_data_dir, search_item, env, session, sent, returned,
                   result, out, raised, hist>>

\* lines 62-67: NovaAct(...).__enter__
OpenSession ==
    /\ pc = "open"
    /\ session' = [state |-> "open", user_data_dir |-> user_data_dir,
                   headless |-> headless]
    /\ pc' = "act"
    /\ UNCHANGED <<user_data_dir, headless, search_item, env, prompted, sent,
                   returned, result, out, raised, hist>>

\* nova.act(...) is entered: the next instruction goes to the agent
ActCall ==
    /\ pc = "act"
    /\ sent' = Append(sent, Instructions(search_item)[returned + 1])
    /\ pc' = "wait"
    /\ UNCHANGED <<user_data_dir, headless, search_item, env, prompted, session,
                   returned, result, out, raised, hist>>

\* one of the four navigation calls returns; its result is dropped
ActReturn ==
    /\ pc = "wait"
    /\ returned + 1 < NumActs
    /\ returned' = returned + 1
    /\ pc' = "act"
    /\ UNCHANGED <<user_data_dir, headless, search_item, env, prompted, session,
                   sent, result, out, raised, hist>>

\* the extraction call returns an ActResult with a list of at most n elements
ExtractReturn(n) ==
    /\ pc = "wait"
    /\ returned + 1 = NumActs
    /\ returned' = returned + 1
    /\ \E m \in BOOLEAN, c \in Candidates(n), t \in RawTexts :
          result' = [matches_schema |-> m, parsed_response |-> c, response |-> t]
    /\ pc' = "resolve"
    /\ UNCHANGED <<user_data_dir, headless, search_item, env, prompted, session,
                   sent, out, raised, hist>>

\* variant: the printed lines pile up in a list that outlives the call
ResolveAccumulating ==
    /\ pc = "resolve"
    /\ LET o == ResolveResult(result)
       IN  /\ out' = hist.out \o o.out
           /\ raised' = o.raised
           /\ pc' = IF o.raised = NoExc THEN "pause" ELSE "close"
    /\ UNCHANGED <<user_data_dir, headless, search_item, env, prompted, session,
                   sent, returned, result, hist>>

\* lines 90-130
Resolve ==
    /\ pc = "resolve"
    /\ LET o == ResolveResult(result)
       IN  /\ out' = o.out
           /\ raised' = o.raised
           /\ pc' = IF o.raised = NoExc THEN "pause" ELSE "close"
    /\ UNCHANGED <<user_data_dir, headless, search_item, env, prompted, session,
                   sent, returned, result, hist>>

\* lines 132-133
Pause ==
    /\ pc = "pause"
    /\ out' = IF headless = "False"
              THEN Append(out, Line("input", 0, "Press Enter to close the browser..."))
              ELSE out
    /\ pc' = "close"
    /\ UNCHANGED <<user_data_dir, headless, search_item, env, prompted, session,
                   sent, returned, result, raised, hist>>

\* NovaAct.__exit__, on normal exit of the with-block or on an exception
CloseSession ==
    /\ pc = "close"
    /\ session' = [session EXCEPT !.state = "closed"]
    /\ pc' = "done"
    /\ UNCHANGED <<user_data_dir, headless, search_item, env, prompted, sent,
                   returned, result, out, raised, hist>>

\* main is called again in the same process; the finished run may be kept
\* for comparison with later ones
Again ==
    /\ pc = "done"
    /\ returned = NumActs
    /\ \/ hist' = [used |-> TRUE, result |-> result, out |-> out, raised |-> raised]
       \/ hist' = hist
    /\ pc' = "start"
    /\ user_data_dir' = "/profiles/a"
    /\ headless' \in Modes
    /\ search_item' = "screens"
    /\ prompted' = FALSE
    /\ session' = NoSession
    /\ sent' = <<>>
    /\ returned' = 0
    /\ result' = NoResult
    /\ out' = <<>>
    /\ raised' = NoExc
    /\ UNCHANGED env

Next ==
    \/ CheckUserDataDir
    \/ SelectMode
    \/ OpenSession
    \/ ActCall
    \/ ActReturn
    \/ ExtractReturn(MaxLen)
    \/ Resolve
    \/ Pause
    \/ CloseSession

Spec == Init /\ [][Next]_vars

InitRep ==
    /\ \E h \in Modes : Call("/profiles/a", h, "screens", None)
    /\ hist = NoRun

NextRep ==
    \/ CheckUserDataDir
    \/ SelectMode
    \/ OpenSession
    \/ ActCall
    \/ ActReturn
    \/ ExtractReturn(MaxRepLen)
    \/ Resolve
    \/ Pause
    \/ CloseSession
    \/ Again

SpecRep == InitRep /\ [][NextRep]_vars

\* ------------------------------------------- reading the console output
\* ParseOutcome of a run, read back from what it printed and raised
KindShown(o, k) == \E i \in 1..Len(o) : o[i].kind = k

OutcomeOf(o, ex) ==
    IF ex.type # "none" THEN "Raised"
    ELSE IF KindShown(o, "header") THEN "Success"
    ELSE IF KindShown(o, "failed") \/ KindShown(o, "error") \/ KindShown(o, "raw")
         THEN "Failure"
    ELSE "Nothing"

TextAt(o, p, k) == IF p <= Len(o) /\ o[p].kind = k THEN o[p].text ELSE "<absent>"

RecordsOf(o) ==
    LET T == {i \in 1..Len(o) : o[i].kind = "title"}
        nth(n) == CHOOSE i \in T : Cardinality({j \in T : j <= i}) = n
    IN  [n \in 1..Cardinality(T) |->
            [title |-> o[nth(n)].text,
             price |-> TextAt(o, nth(n) + 1, "price"),
             location |-> TextAt(o, nth(n) + 2, "location"),
             time_posted |-> TextAt(o, nth(n) + 3, "posted")]]

ItemLineShown(o) ==
    \E i \in 1..Len(o) : o[i].kind \in {"title", "price", "location", "posted"}

RawOf(o) ==
    IF \E i \in 1..Len(o) : o[i].kind \in {"failed", "raw"}
    THEN o[CHOOSE i \in 1..Len(o) : o[i].kind \in {"failed", "raw"}].text
    ELSE "<absent>"

DetailOf(o) ==
    IF KindShown(o, "error")
    THEN o[CHOOSE i \in 1..Len(o) : o[i].kind = "error"].msg
    ELSE NoMsg

ParseOutcome(o, ex) ==
    [kind |-> OutcomeOf(o, ex), records |-> RecordsOf(o), raw |-> RawOf(o),
     detail |-> DetailOf(o), exc |-> ex]

\* lines 90-130 have run in the current call of main
Resolved == pc \in {"pause", "close", "done"} /\ returned = NumActs

Cand == result.parsed_response

\* a Record-shaped object: the four fields are present and are strings
WellFormed(e) ==
    /\ e.tag = "obj"
    /\ \A k \in {"title", "price", "location", "time_posted"} :
          k \in DOMAIN e.f /\ e.f[k].tag = "str"

RecordOf(e) ==
    [title |-> e.f["title"].s, price |-> e.f["price"].s,
     location |-> e.f["location"].s, time_posted |-> e.f["time_posted"].s]

IsKeyed(c) == c.tag = "obj" /\ DOMAIN c.f = {"items"} /\ c.f["items"].tag = "list"
ElemsOf(c) == IF c.tag = "list" THEN c.q ELSE IF IsKeyed(c) THEN c.f["items"].q ELSE <<>>
AllWellFormed(q) == \A i \in 1..Len(q) : WellFormed(q[i])
ValidKeyed(c) == IsKeyed(c) /\ AllWellFormed(ElemsOf(c))
ValidBare(c) == c.tag = "list" /\ AllWellFormed(ElemsOf(c))
HasMalformed(c) == (IsKeyed(c) \/ c.tag = "list") /\ ~AllWellFormed(ElemsOf(c))
ExpectedRecords(c) == [i \in 1..Len(ElemsOf(c)) |-> RecordOf(ElemsOf(c)[i])]

\* ------------------------------------------------------------------ claims

\* C1: once the extraction result has been resolved, the run has ended in a
\* Success or a Failure outcome, for either value of matches_schema; no
\* validation fault leaves main as an exception.
C1_NoUnhandledFault ==
    Resolved => OutcomeOf(out, raised) \in {"Success", "Failure"}

\* C2: a candidate {items: [r1..rn]} of well-formed records (n >= 0) resolves
\* to Success and the records shown are exactly r1..rn, in that order.
C2_KeyedItemsSucceed ==
    (Resolved /\ ValidKeyed(Cand)) =>
        /\ OutcomeOf(out, raised) = "Success"
        /\ RecordsOf(out) = ExpectedRecords(Cand)

C2_Witness ==
    /\ Resolved
    /\ Cand = JObj([items |-> JList(<<Lamp, DeskExtra>>)])
    /\ RecordsOf(out) = <<RecordOf(Lamp), RecordOf(Desk)>>

\* C3: a bare sequence of well-formed records resolves to Success with the
\* records in input order, whatever the value of matches_schema.
C3_BareSequenceSucceeds ==
    (Resolved /\ ValidBare(Cand)) =>
        /\ OutcomeOf(out, raised) = "Success"
        /\ RecordsOf(out) = ExpectedRecords(Cand)

\* C4: two resolutions of the same candidate and raw text have the same
\* outcome even when their matches_schema hints differ.
C4_HintIndependent ==
    (/\ Resolved
     /\ hist.used
     /\ hist.result.parsed_response = Cand
     /\ hist.result.response = result.response) =>
        ParseOutcome(hist.out, hist.raised) = ParseOutcome(out, raised)

C6_ScalarFails ==
    (Resolved /\ Cand.tag = "str") =>
        /\ OutcomeOf(out, raised) = "Failure"
        /\ RawOf(out) = result.response

\* C7 as stated: when the candidate is neither a valid keyed-items object nor
\* a valid bare sequence, the Failure outcome carries the raw response and,
\* as error_detail, a validation error message.
C7_FailureCarriesDetail ==
    (/\ Resolved
     /\ ~ValidKeyed(Cand) /\ ~ValidBare(Cand)
     /\ OutcomeOf(out, raised) = "Failure") =>
        /\ RawOf(out) = result.response
        /\ DetailOf(out) # NoMsg

\* the error detail is the MarketplaceItem error of the first malformed
\* element e of a bare sequence
DetailIsFor(d, e) ==
    /\ d.title = "MarketplaceItem"
    /\ d.errors # {}
    /\ \A x \in d.errors :
          /\ x.idx = NoIdx
          /\ x.type \in {"model_type", "missing", "string_type"}
          /\ x.type = "model_type" => e.tag # "obj"
          /\ x.type = "missing" => e.tag = "obj" /\ x.field \notin DOMAIN e.f
          /\ x.type = "string_type" =>
                e.tag = "obj" /\ x.field \in DOMAIN e.f /\ e.f[x.field].tag # "str"
    /\ e.tag = "obj" =>
          \A k \in {"title", "price", "location", "time_posted"} :
              (k \notin DOMAIN e.f \/ e.f[k].tag # "str") =>
                  \E x \in d.errors : x.field = k

\* C7 as amended: a Failure outcome always carries the raw response text; it
\* carries an error detail exactly when the candidate is a bare sequence, and
\* the detail is then the validation error of the first malformed element;
\* a candidate that is no sequence fails with the raw response alone.
C7_FailureDetailOnlyForSequences ==
    (Resolved /\ OutcomeOf(out, raised) = "Failure") =>
        /\ ~ValidKeyed(Cand) /\ ~ValidBare(Cand)
        /\ RawOf(out) = result.response
        /\ Cand.tag # "list" => DetailOf(out) = NoMsg
        /\ Cand.tag = "list" =>
              \E i \in 1..Len(Cand.q) :
                  /\ ~WellFormed(Cand.q[i])
                  /\ \A j \in 1..(i - 1) : WellFormed(Cand.q[j])
                  /\ DetailIsFor(DetailOf(out), Cand.q[i])

C7_Witness ==
    /\ Resolved
    /\ Cand = JList(<<NoTime, NumPrice>>)
    /\ OutcomeOf(out, raised) = "Failure"
    /\ DetailOf(out).errors = {Err(NoIdx, "time_posted", "missing")}

ExpectedTexts ==
    << "Click on Marketplace", "Search for", "Click on date de mise en vente",
       "Select last 24 hours", "Get the first 5 marketplace items" >>

C9_State ==
    /\ Len(sent) <= 5
    /\ \A i \in 1..Len(sent) :
          /\ sent[i].text = ExpectedTexts[i]
          /\ sent[i].schema = (i = 5)
          /\ i = 2 => sent[i].arg = search_item
    /\ sent # <<>> => session.state # "none"
    /\ Resolved => Len(sent) = 5
    /\ (out # <<>> \/ raised.type = "ValidationError") => Len(sent) = 5 /\ returned = 5

C9_Step ==
    /\ sent' # sent =>
          /\ Len(sent') = Len(sent) + 1
          /\ returned = Len(sent)
          /\ session.state = "open"
    /\ (out' # out \/ raised' # raised) /\ raised'.type # "ValueError" =>
          /\ returned = 5
          /\ session.state = "open" /\ session'.state = "open"
    /\ session.state = "closed" => (sent' = sent /\ out' = out)

\* C9: in a run that opens a session the five instructions go to the agent in
\* program order, each after the previous one returned, the extraction once;
\* the result is resolved and shown after the extraction returned and while
\* the session is still open.
C9_InstructionOrder == []C9_State /\ [][C9_Step]_vars

C9_Witness ==
    /\ pc = "done"
    /\ session.state = "closed"
    /\ Len(sent) = 5
    /\ search_item = "desk"
    /\ OutcomeOf(out, raised) = "Success"

C10_State ==
    /\ raised.type = "ValueError" =>
          /\ user_data_dir = None /\ env = None
          /\ ~prompted
          /\ session = NoSession
          /\ sent = <<>>
          /\ pc = "done"
    /\ pc # "start" /\ user_data_dir = None => raised.type = "ValueError"
    /\ session.state # "none" =>
          session.user_data_dir = user_data_dir /\ user_data_dir # None

C10_Step ==
    pc = "start" /\ pc' # "start" =>
        /\ user_data_dir # None => user_data_dir' = user_data_dir /\ raised' = NoExc
        /\ user_data_dir = None /\ env # None => user_data_dir' = env /\ raised' = NoExc
        /\ user_data_dir = None /\ env = None => raised'.type = "ValueError"

\* C10: without a user_data_dir argument and without USER_DATA_DIR in the
\* environment main raises ValueError before the mode prompt, before a
\* session is opened and before any instruction is sent; with either source
\* it does not, and the argument wins over the environment variable.
C10_UserDataDir == []C10_State /\ [][C10_Step]_vars

C10_Witness ==
    /\ pc = "done"
    /\ raised.type = "ValueError"
    /\ sent = <<>>

====
